---- MODULE Spec2Model ----
(***************************************************************************)
(* State machine of the App component of src/src/App.tsx: the React state  *)
(* (conversations, currentConversation, inputText, isListening), the       *)
(* pending setTimeout callbacks with the values their closures captured,   *)
(* and the SpeechRecognition objects the component constructs.             *)
(*                                                                         *)
(* A text is a sequence of one-character strings, so that trim(), slice()  *)
(* and length are computed on characters as the code computes them.        *)
(*                                                                         *)
(* Every handler runs to completion on the UI thread and React re-renders  *)
(* before the next event is delivered, so a handler always reads the       *)
(* state of the latest render.  A setTimeout callback is the exception: it *)
(* reads the variables of the render in which its send ran.                *)
(***************************************************************************)
EXTENDS Integers, Sequences, FiniteSets, TLC

VARIABLES
    conversations,        \* useState<Conversation[]>, line 16
    currentConversation,  \* useState<Conversation | null>, line 17
    inputText,            \* useState(''), line 18
    isListening,          \* useState(false), line 19
    pending,              \* queue of scheduled setTimeout callbacks (closures), line 81
    now,                  \* the value the next Date.now() returns, line 71
    recognition,          \* the SpeechRecognition object of the current render, line 23
    running,              \* objects on which start() was called and that have not ended
    stopping,             \* running objects on which stop() was called
    alertShown,           \* whether alert() of line 106 has been called
    afterNew,             \* history: startNewConversation ran, no select or accepted send since
    sent,                 \* history: the number of sends accepted so far
    heard                 \* history: a result event reached an object without onresult

vars == <<conversations, currentConversation, inputText, isListening, pending,
          now, recognition, running, stopping, alertShown,
          afterNew, sent, heard>>

---------------------------------------------------------------------------
(* Bounds of the model *)

\* Conversations ever created (Date.now() values handed out).
MaxId == 2
\* Sends accepted in one run.
MaxSends == 3

---------------------------------------------------------------------------
(* Texts *)

Rep(n, c) == [i \in 1..n |-> c]

\* The characters String.prototype.trim() strips (those that occur here).
WhiteSpace == {" ", "\t", "\n"}

\* Values the input field is given by typing (onChange, line 150).
Texts ==
    { <<>>,
      <<" ">>,
      <<" ">> \o Rep(29, "x"),
      Rep(31, "y") }

\* The template literal prefix of line 82.
YouSaid == <<"Y", "o", "u", " ", "s", "a", "i", "d", ":", " ">>

\* null of the Conversation | null state; Date.now() ids are positive.
Null == [id |-> 0, title |-> <<>>, messages |-> <<>>]

\* recognition when the browser has no SpeechRecognition (line 23).
NoRecognition == -1

\* The object of the first render: the only one the effect of lines 25-47,
\* which runs once after the first render, sets handlers on.
FirstRecognition == 0

---------------------------------------------------------------------------
(* Pure functions of the code *)

RECURSIVE TrimStart(_)
TrimStart(s) ==
    IF s # <<>> /\ Head(s) \in WhiteSpace THEN TrimStart(Tail(s)) ELSE s

RECURSIVE TrimEnd(_)
TrimEnd(s) ==
    IF s # <<>> /\ s[Len(s)] \in WhiteSpace
    THEN TrimEnd(SubSeq(s, 1, Len(s) - 1))
    ELSE s

\* The draft tested as it is: if (inputText).
TrimNone(s) == s

\* String.prototype.trim(), line 58.
Trim(s) == TrimEnd(TrimStart(s))

\* if (inputText.trim()): a string is truthy when it is not empty, line 58.
Truthy(s) == s # <<>>

\* s.slice(0, n) for 0 <= n.
Slice0(s, n) == SubSeq(s, 1, IF Len(s) < n THEN Len(s) ELSE n)

\* The ellipsis added from 30 characters on: inputText.length >= 30.
TitleFrom30(text) ==
    Slice0(text, 30) \o (IF Len(text) >= 30 THEN <<".", ".", ".">> ELSE <<>>)

\* The title of a new conversation, line 72.
Title(text) ==
    Slice0(text, 30) \o (IF Len(text) > 30 THEN <<".", ".", ".">> ELSE <<>>)

\* const newMessage = { text: inputText, isUser: true }, line 59.
NewMessage(text) == [text |-> text, isUser |-> TRUE]

\* The reply built from the draft of the latest render instead of the
\* draft the send captured.
BotResponseLatest(text) == [text |-> YouSaid \o inputText, isUser |-> FALSE]

\* const botResponse = { text: `You said: ${inputText}`, isUser: false }, line 82.
BotResponse(text) == [text |-> YouSaid \o text, isUser |-> FALSE]

\* The updated conversation with only the last of the added messages: the
\* callback of the timer adds the reply alone.
UpdatedConversationLastOnly(conv, added) ==
    [conv EXCEPT !.messages = Append(conv.messages, added[Len(added)])]

\* { ...currentConversation, messages: [...currentConversation.messages, ...added] },
\* lines 61-64 and 84-87.
UpdatedConversation(conv, added) ==
    [conv EXCEPT !.messages = conv.messages \o added]

\* The map without its test of the id: every entry replaced.
MapReplaceAll(convs, id, updated) ==
    [i \in 1..Len(convs) |-> updated]

\* conversations.map(conv => conv.id === currentConversation.id
\*                            ? updatedConversation : conv), lines 66-68 and 89-91.
MapReplace(convs, id, updated) ==
    [i \in 1..Len(convs) |-> IF convs[i].id = id THEN updated ELSE convs[i]]

\* const newConversation = { id: Date.now(), title: ..., messages: [newMessage] },
\* lines 70-74.
NewConversation(id, text) ==
    [id |-> id, title |-> Title(text), messages |-> <<NewMessage(text)>>]

RECURSIVE Join(_)
Join(parts) ==
    IF parts = <<>> THEN <<>> ELSE Head(parts) \o Join(Tail(parts))

\* Array.from(event.results).map(result => result[0].transcript).join(''),
\* lines 32-34.  A result is the sequence of its alternatives' transcripts.
Transcript(results) ==
    Join([i \in 1..Len(results) |-> results[i][1]])

---------------------------------------------------------------------------
(* Rendering *)

\* Line 23 runs in the body of App, so every render constructs a new
\* SpeechRecognition object.  Objects are numbered in the order in which
\* they can be reached: the object of a render that was replaced before
\* start() was called on it cannot be reached any more, and its number is
\* given to the object of the next render.
FreshRecognition ==
    IF recognition \in running' \cup {FirstRecognition}
    THEN recognition + 1
    ELSE recognition

\* The render that follows a handler: React renders again when a state
\* setter was given a value that is not the current one.
Render(changed) ==
    recognition' = IF changed /\ recognition # NoRecognition
                   THEN FreshRecognition
                   ELSE recognition

\* The variables a setTimeout callback reads are those of the render in
\* which handleSendMessage ran (lines 82-91 read inputText,
\* currentConversation, conversations and newMessage of the enclosing call).
Closure ==
    [inputText |-> inputText,
     currentConversation |-> currentConversation,
     conversations |-> conversations]

Speech == <<running, stopping, alertShown>>

---------------------------------------------------------------------------
(* Initial state: the state after the first render and its effects *)

Init ==
    /\ conversations = <<>>
    /\ currentConversation = Null
    /\ inputText = <<>>
    /\ isListening = FALSE
    /\ pending = <<>>
    /\ now = 1
    /\ recognition \in {FirstRecognition, NoRecognition}
    /\ running = {}
    /\ stopping = {}
    /\ alertShown = FALSE
    /\ afterNew = FALSE
    /\ sent = 0
    /\ heard = FALSE

---------------------------------------------------------------------------
(* Handlers *)

\* onChange={(e) => setInputText(e.target.value)}, line 150.
onChange(value) ==
    /\ UNCHANGED heard
    /\ value # inputText
    /\ inputText' = value
    /\ UNCHANGED <<conversations, currentConversation, isListening, pending,
                   now, afterNew, sent>>
    /\ UNCHANGED Speech
    /\ Render(TRUE)

\* handleSendMessage without the setConversations of lines 66-68: a send
\* into the active conversation updates the active snapshot only.
handleSendMessagePointerOnly ==
    /\ UNCHANGED heard
    /\ UNCHANGED isListening
    /\ UNCHANGED Speech
    /\ IF Truthy(Trim(inputText))
       THEN /\ sent < MaxSends
            /\ sent' = sent + 1
            /\ IF currentConversation # Null
               THEN /\ currentConversation' =
                           UpdatedConversation(currentConversation,
                                               <<NewMessage(inputText)>>)
                    /\ conversations' = conversations
                    /\ now' = now
               ELSE /\ now <= MaxId
                    /\ LET newConversation == NewConversation(now, inputText)
                       IN  /\ currentConversation' = newConversation
                           /\ conversations' =
                                  Append(conversations, newConversation)
                    /\ now' = now + 1
            /\ inputText' = <<>>
            /\ pending' = Append(pending, Closure)
            /\ afterNew' = FALSE
            /\ Render(TRUE)
       ELSE /\ UNCHANGED <<conversations, currentConversation, inputText,
                           pending, now, afterNew, sent>>
            /\ Render(FALSE)

\* handleSendMessage, lines 57-95.  Date.now() is read once per created
\* conversation and is larger at every later creation: two creations are
\* separated by a click on New Conversation and the typing of a draft, hence
\* by more than a millisecond.
handleSendMessage ==
    /\ UNCHANGED heard
    /\ UNCHANGED isListening
    /\ UNCHANGED Speech
    /\ IF Truthy(Trim(inputText))
       THEN /\ sent < MaxSends
            /\ sent' = sent + 1
            /\ IF currentConversation # Null
               THEN /\ LET updatedConversation ==
                               UpdatedConversation(currentConversation,
                                                   <<NewMessage(inputText)>>)
                       IN  /\ currentConversation' = updatedConversation
                           /\ conversations' =
                                  MapReplace(conversations,
                                             currentConversation.id,
                                             updatedConversation)
                    /\ now' = now
               ELSE /\ now <= MaxId
                    /\ LET newConversation == NewConversation(now, inputText)
                       IN  /\ currentConversation' = newConversation
                           /\ conversations' =
                                  Append(conversations, newConversation)
                    /\ now' = now + 1
            /\ inputText' = <<>>
            /\ pending' = Append(pending, Closure)
            /\ afterNew' = FALSE
            /\ Render(TRUE)
       ELSE /\ UNCHANGED <<conversations, currentConversation, inputText,
                           pending, now, afterNew, sent>>
            /\ Render(FALSE)

\* The callback of lines 81-93 reading the conversation and the list of the
\* latest render instead of those of the render that scheduled it.
replyTimerLatest ==
    /\ UNCHANGED heard
    /\ pending # <<>>
    /\ pending' = Tail(pending)
    /\ UNCHANGED <<inputText, isListening, now, afterNew, sent>>
    /\ UNCHANGED Speech
    /\ LET c == Head(pending)
       IN  IF currentConversation # Null
           THEN LET updatedConversation ==
                        UpdatedConversation(currentConversation,
                                            <<NewMessage(c.inputText),
                                              BotResponse(c.inputText)>>)
                IN  /\ currentConversation' = updatedConversation
                    /\ conversations' =
                           MapReplace(conversations,
                                      currentConversation.id,
                                      updatedConversation)
                    /\ Render(TRUE)
           ELSE /\ UNCHANGED <<conversations, currentConversation>>
                /\ Render(FALSE)

\* The callback given to setTimeout, lines 81-93.  All timers have the same
\* delay of 1000 ms, so they fire in the order they were scheduled.
replyTimer ==
    /\ UNCHANGED heard
    /\ pending # <<>>
    /\ pending' = Tail(pending)
    /\ UNCHANGED <<inputText, isListening, now, afterNew, sent>>
    /\ UNCHANGED Speech
    /\ LET c == Head(pending)
       IN  IF c.currentConversation # Null
           THEN LET updatedConversation ==
                        UpdatedConversation(c.currentConversation,
                                            <<NewMessage(c.inputText),
                                              BotResponse(c.inputText)>>)
                IN  /\ currentConversation' = updatedConversation
                    /\ conversations' =
                           MapReplace(c.conversations,
                                      c.currentConversation.id,
                                      updatedConversation)
                    /\ Render(TRUE)
           ELSE /\ UNCHANGED <<conversations, currentConversation>>
                /\ Render(FALSE)

\* startNewConversation, lines 110-112.
startNewConversation ==
    /\ UNCHANGED heard
    /\ currentConversation' = Null
    /\ afterNew' = TRUE
    /\ UNCHANGED <<conversations, inputText, isListening, pending, now, sent>>
    /\ UNCHANGED Speech
    /\ Render(currentConversation # Null)

\* selectConversation, lines 114-116.
selectConversation(conversation) ==
    /\ UNCHANGED heard
    /\ currentConversation' = conversation
    /\ afterNew' = FALSE
    /\ UNCHANGED <<conversations, inputText, isListening, pending, now, sent>>
    /\ UNCHANGED Speech
    /\ Render(currentConversation # conversation)

\* toggleListening with the indicator set before the test of line 98:
\* without a SpeechRecognition the notice is shown and the indicator is on.
toggleListeningIndicatorFirst ==
    /\ UNCHANGED heard
    /\ IF recognition # NoRecognition
       THEN IF isListening
            THEN /\ stopping' = stopping \cup ({recognition} \cap running)
                 /\ UNCHANGED <<isListening, running, alertShown>>
                 /\ Render(FALSE)
            ELSE IF recognition \in running
                 THEN /\ UNCHANGED <<isListening, running, stopping, alertShown>>
                      /\ Render(FALSE)
                 ELSE /\ running' = running \cup {recognition}
                      /\ isListening' = TRUE
                      /\ UNCHANGED <<stopping, alertShown>>
                      /\ Render(TRUE)
       ELSE /\ alertShown' = TRUE
            /\ isListening' = TRUE
            /\ UNCHANGED <<running, stopping>>
            /\ Render(FALSE)
    /\ UNCHANGED <<conversations, currentConversation, inputText, pending,
                   now, afterNew, sent>>

\* toggleListening, lines 97-108.  stop() on an object that is not running
\* does nothing; start() on a running object throws before line 103.
toggleListening ==
    /\ UNCHANGED heard
    /\ IF recognition # NoRecognition
       THEN IF isListening
            THEN /\ stopping' = stopping \cup ({recognition} \cap running)
                 /\ UNCHANGED <<isListening, running, alertShown>>
                 /\ Render(FALSE)
            ELSE IF recognition \in running
                 THEN /\ UNCHANGED <<isListening, running, stopping, alertShown>>
                      /\ Render(FALSE)
                 ELSE /\ running' = running \cup {recognition}
                      /\ isListening' = TRUE
                      /\ UNCHANGED <<stopping, alertShown>>
                      /\ Render(TRUE)
       ELSE /\ alertShown' = TRUE
            /\ UNCHANGED <<isListening, running, stopping>>
            /\ Render(FALSE)
    /\ UNCHANGED <<conversations, currentConversation, inputText, pending,
                   now, afterNew, sent>>

\* recognition.onresult, lines 31-36: the handler of result events, set on
\* the first object.
onresult(results) ==
    /\ inputText' = Transcript(results)
    /\ UNCHANGED <<conversations, currentConversation, isListening, pending,
                   now, afterNew, sent>>
    /\ UNCHANGED Speech
    /\ Render(inputText' # inputText)

\* recognition.onerror, lines 38-41: the handler of error events, set on the
\* first object.
onerror ==
    /\ isListening' = FALSE
    /\ UNCHANGED <<conversations, currentConversation, inputText, pending,
                   now, afterNew, sent, alertShown>>
    /\ Render(isListening)

\* recognition.onend, lines 43-45: the handler of end events, set on the
\* first object.
onend ==
    /\ isListening' = FALSE
    /\ UNCHANGED <<conversations, currentConversation, inputText, pending,
                   now, afterNew, sent, alertShown>>
    /\ Render(isListening)

\* An event of an object that has no handler (every object but the first,
\* lines 23 and 25-47): no code of the component runs.
NoHandler ==
    /\ UNCHANGED <<conversations, currentConversation, inputText, isListening,
                   pending, now, afterNew, sent, alertShown, recognition>>

\* A running stream r delivers a result event.
resultEvent(r, results) ==
    /\ r \in running
    /\ IF r = FirstRecognition
       THEN onresult(results) /\ UNCHANGED heard
       ELSE NoHandler /\ UNCHANGED <<running, stopping>> /\ heard' = TRUE

\* A running stream r fails: it delivers an error event and, directly after
\* it, its end event.  On the first object onerror runs, then onend; both
\* only call setIsListening(false).
errorEvent(r) ==
    /\ r \in running
    /\ running' = running \ {r}
    /\ stopping' = stopping \ {r}
    /\ UNCHANGED heard
    /\ IF r = FirstRecognition THEN onerror /\ onend ELSE NoHandler

\* A running stream r delivers its end event.
endEvent(r) ==
    /\ r \in running
    /\ running' = running \ {r}
    /\ stopping' = stopping \ {r}
    /\ UNCHANGED heard
    /\ IF r = FirstRecognition THEN onend ELSE NoHandler

---------------------------------------------------------------------------
(* Inputs *)

\* The conversations the sidebar renders, lines 180-191: a click selects
\* one of them.
Rendered == {conversations[i] : i \in 1..Len(conversations)}

\* event.results of a result event: a sequence of results, each the
\* sequence of its alternatives' transcripts.  With interimResults the
\* list grows from one event to the next.
ResultLists ==
    { << <<<<" ">>, <<"a">>>> >>,
      << <<<<" ">>>>, <<Rep(29, "x"), Rep(29, "z")>> >> }

Next ==
    \/ \E value \in Texts : onChange(value)
    \/ handleSendMessage
    \/ replyTimer
    \/ startNewConversation
    \/ \E conversation \in Rendered : selectConversation(conversation)
    \/ toggleListening
    \/ \E r \in running, results \in ResultLists : resultEvent(r, results)
    \/ \E r \in running : errorEvent(r)
    \/ \E r \in running : endEvent(r)

Spec == Init /\ [][Next]_vars

\* selectConversation called as a function, with a Conversation that the
\* list does not hold (no Date.now() is negative).
Absent ==
    [id |-> -1, title |-> <<"H", "i">>,
     messages |-> <<NewMessage(<<"H", "i">>)>>]

NextDirect ==
    \/ Next
    \/ selectConversation(Absent)

SpecDirect == Init /\ [][NextDirect]_vars

---------------------------------------------------------------------------
(* Vocabulary of the properties *)

\* A text with no character other than white space (the empty text included).
IsBlank(s) == \A i \in 1..Len(s) : s[i] \in WhiteSpace

Ids(convs) == {convs[i].id : i \in 1..Len(convs)}

IdSeq(convs) == [i \in 1..Len(convs) |-> convs[i].id]

IsPrefix(p, q) == Len(p) <= Len(q) /\ SubSeq(q, 1, Len(p)) = p

Last(q) == q[Len(q)]

UserMsg(t) == [text |-> t, isUser |-> TRUE]

BotMsg(t) == [text |-> YouSaid \o t, isUser |-> FALSE]

\* The first 30 characters of t, then "..." exactly when t is longer.
ExpectedTitle(t) ==
    IF Len(t) > 30 THEN SubSeq(t, 1, 30) \o <<".", ".", ".">> ELSE t

\* The stored conversations and the active snapshot.
Known == {conversations[i] : i \in 1..Len(conversations)}
             \cup ({currentConversation} \ {Null})

---------------------------------------------------------------------------
(* C1 *)

\* C1: a send of a draft with a non-white-space character either appends
\* exactly the message {text: draft, isUser: true} to the active
\* conversation and writes that updated conversation over the one list
\* entry with its id, every other entry unchanged, or, with no active
\* conversation, appends one new conversation holding just that message to
\* the list and makes it active; the draft is empty afterwards.
C1_SendAppendsOneMessage ==
    [][ (handleSendMessage /\ ~IsBlank(inputText)) =>
          /\ inputText' = <<>>
          /\ IF currentConversation # Null
             THEN /\ currentConversation' =
                        [id |-> currentConversation.id,
                         title |-> currentConversation.title,
                         messages |-> Append(currentConversation.messages,
                                             UserMsg(inputText))]
                  /\ Len(conversations') = Len(conversations)
                  /\ Cardinality({i \in 1..Len(conversations) :
                          conversations[i].id = currentConversation.id}) = 1
                  /\ \A i \in 1..Len(conversations) :
                        conversations'[i] =
                            IF conversations[i].id = currentConversation.id
                            THEN currentConversation'
                            ELSE conversations[i]
             ELSE /\ Len(conversations') = Len(conversations) + 1
                  /\ SubSeq(conversations', 1, Len(conversations)) = conversations
                  /\ Last(conversations').messages = <<UserMsg(inputText)>>
                  /\ currentConversation' = Last(conversations')
      ]_vars

\* A send into the active conversation has acted while another conversation
\* is stored: the active conversation ends with a user message, the draft is
\* empty.
C1_Witness ==
    /\ Len(conversations) = 2
    /\ currentConversation # Null
    /\ Len(currentConversation.messages) >= 2
    /\ Last(currentConversation.messages).isUser
    /\ inputText = <<>>

---------------------------------------------------------------------------
(* C2 *)

\* C2: when the reply timer of a send made in an active conversation C
\* fires, the stored conversation with C's id ends with the message
\* {text: "You said: " + the draft captured by the send, isUser: false},
\* whatever conversation is active and whatever the draft is at that time.
C2_ReplyGoesToSendTimeConversation ==
    [][ (replyTimer /\ Head(pending).currentConversation # Null) =>
          \E i \in 1..Len(conversations') :
              /\ conversations'[i].id = Head(pending).currentConversation.id
              /\ Last(conversations'[i].messages) =
                     BotMsg(Head(pending).inputText)
      ]_vars

\* The timer of a send made in C is about to fire while another conversation
\* is active and the draft holds another text.
C2_Witness ==
    /\ pending # <<>>
    /\ Head(pending).currentConversation # Null
    /\ currentConversation # Null
    /\ currentConversation.id # Head(pending).currentConversation.id
    /\ inputText # <<>>
    /\ inputText # Head(pending).inputText

---------------------------------------------------------------------------
(* C3 *)

\* C3: when the reply timer of a send that created a conversation fires, the
\* created conversation (one that the list of send time did not hold, opened
\* by the user message of the sent draft) ends with the echo reply to that
\* draft.
C3_NewConversationGetsReply ==
    [][ (replyTimer /\ Head(pending).currentConversation = Null) =>
          \E i \in 1..Len(conversations') :
              /\ conversations'[i].id \notin Ids(Head(pending).conversations)
              /\ Head(conversations'[i].messages) =
                     UserMsg(Head(pending).inputText)
              /\ Last(conversations'[i].messages) =
                     BotMsg(Head(pending).inputText)
      ]_vars

---------------------------------------------------------------------------
(* C4 *)

\* C4: messages are append-only: in every step, the messages stored for an id
\* before the step are a prefix of the messages stored for it after the
\* step, in the list and in the active snapshot.
C4_MessagesAppendOnly ==
    [][ /\ \A i \in 1..Len(conversations), j \in 1..Len(conversations') :
              conversations[i].id = conversations'[j].id =>
                  IsPrefix(conversations[i].messages, conversations'[j].messages)
        /\ (currentConversation # Null /\ currentConversation' # Null
               /\ currentConversation.id = currentConversation'.id) =>
                  IsPrefix(currentConversation.messages,
                           currentConversation'.messages)
      ]_vars

---------------------------------------------------------------------------
(* C5 *)

\* C5: conversations are never deleted or reordered: in every step the ids of
\* the list before the step are a prefix of the ids of the list after it.
C5_ConversationsKept ==
    [][ IsPrefix(IdSeq(conversations), IdSeq(conversations')) ]_vars

---------------------------------------------------------------------------
(* C6 *)

\* C6: startNewConversation clears the active pointer and changes nothing
\* else; and the first accepted send after it, with no selectConversation in
\* between, appends a conversation with a new id to the list and leaves every
\* existing entry as it was, also when reply timers fired in between.
C6_NewConversationThenSend ==
    [][ /\ startNewConversation =>
              /\ currentConversation' = Null
              /\ UNCHANGED <<conversations, inputText, isListening>>
        /\ (afterNew /\ handleSendMessage /\ ~IsBlank(inputText)) =>
              /\ Len(conversations') = Len(conversations) + 1
              /\ SubSeq(conversations', 1, Len(conversations)) = conversations
              /\ Last(conversations').id \notin Ids(conversations)
      ]_vars

---------------------------------------------------------------------------
(* C7 *)

\* C7: a send of a draft that is empty or holds only white space changes
\* nothing: list, active conversation, draft and listening flag stay as they
\* are and no reply timer is scheduled.
C7_BlankSendIsNoOp ==
    [][ (handleSendMessage /\ IsBlank(inputText)) =>
          UNCHANGED <<conversations, currentConversation, inputText,
                      isListening, pending>>
      ]_vars

\* A draft of white space only is in the input field, with a conversation
\* active and a reply timer pending.
C7_Witness ==
    /\ inputText # <<>>
    /\ IsBlank(inputText)
    /\ currentConversation # Null
    /\ pending # <<>>

---------------------------------------------------------------------------
(* C8 *)

\* C8: every title is at most 33 characters long and is the first 30
\* characters of the text of the conversation's first message, followed by
\* "..." exactly when that text is longer than 30 characters; and no step
\* changes the title stored for an id.
C8_TitleFixedAtCreation ==
    /\ [](\A conv \in Known :
              /\ Len(conv.title) <= 33
              /\ conv.title = ExpectedTitle(Head(conv.messages).text))
    /\ [][ \A c \in Known : \A d \in Known' : c.id = d.id => c.title = d.title ]_vars

\* A conversation created by a text of more than 30 characters has received
\* later messages; another was created by a text of exactly 30 characters.
C8_Witness ==
    /\ \E conv \in Known :
          /\ Len(Head(conv.messages).text) > 30
          /\ Len(conv.title) = 33
          /\ Len(conv.messages) >= 3
    /\ \E conv \in Known :
          /\ Len(Head(conv.messages).text) = 30
          /\ Len(conv.title) = 30

---------------------------------------------------------------------------
(* C9 *)

---------------------------------------------------------------------------
(* C10 *)

\* C10: one SpeechRecognition object exists for the lifetime of the
\* component: every start() and stop() of toggleListening goes to the object
\* on which the handlers were set.
C10_OneRecognitionObject ==
    [][ (toggleListening /\ recognition # NoRecognition) =>
          recognition = FirstRecognition
      ]_vars

---------------------------------------------------------------------------
(* C11 *)

\* C11: with a SpeechRecognition, toggleListening while not listening starts
\* the stream and sets the indicator in the same step; toggleListening while
\* listening asks the running stream to stop, that is, whenever the indicator
\* is on, the object that stop() would be called on is a running one (whose
\* end event then clears the indicator).
C11_ToggleStartsAndStops ==
    /\ [][ (toggleListening /\ recognition # NoRecognition /\ ~isListening) =>
              /\ isListening'
              /\ recognition \in running'
         ]_vars
    /\ []((isListening /\ recognition # NoRecognition) =>
              recognition \in running)

---------------------------------------------------------------------------
(* C12 *)

\* C12: without a SpeechRecognition, toggleListening shows the notice and
\* changes no state; the indicator is off in every state and no stream is
\* ever started.
C12_NoCapabilityNoListening ==
    /\ [][ (toggleListening /\ recognition = NoRecognition) =>
              /\ alertShown'
              /\ UNCHANGED <<conversations, currentConversation, inputText,
                             isListening, pending, recognition, running,
                             stopping>>
         ]_vars
    /\ [](recognition = NoRecognition =>
              (~isListening /\ running = {} /\ stopping = {}))

\* The notice has been shown in a browser without SpeechRecognition, with a
\* conversation stored.
C12_Witness ==
    /\ recognition = NoRecognition
    /\ alertShown
    /\ ~isListening
    /\ conversations # <<>>

---------------------------------------------------------------------------
(* C13 *)

\* The first alternatives of results[1..n], one after the other.
RECURSIVE FirstAlternatives(_, _)
FirstAlternatives(results, n) ==
    IF n = 0
    THEN <<>>
    ELSE FirstAlternatives(results, n - 1) \o results[n][1]

\* C13: every result event of a stream, delivered while the indicator is on,
\* sets the draft to the first alternatives of all results of the event, one
\* after the other, whatever the draft was, and changes nothing else.
C13_ResultOverwritesDraft ==
    [][ \A r \in running, results \in ResultLists :
          (isListening /\ resultEvent(r, results)) =>
              /\ inputText' = FirstAlternatives(results, Len(results))
              /\ UNCHANGED <<conversations, currentConversation, isListening,
                             pending>> ]_vars

---------------------------------------------------------------------------
(* C14 *)

\* C14: an error event and an end event of a stream each leave the indicator
\* off and leave the draft, the conversation list and the active
\* conversation as they were.
C14_ErrorAndEndStopListening ==
    [][ \A r \in running :
          (errorEvent(r) \/ endEvent(r)) =>
              /\ ~isListening'
              /\ UNCHANGED <<inputText, conversations, currentConversation>> ]_vars

---------------------------------------------------------------------------
(* C15 *)

\* The reply timer of a send made in a conversation C is about to fire while
\* another conversation D is active.
SwitchedBeforeReply ==
    /\ pending # <<>>
    /\ Head(pending).currentConversation # Null
    /\ currentConversation # Null
    /\ currentConversation.id # Head(pending).currentConversation.id

\* C15 as stated: when the user has switched from C to D between a send in C
\* and the firing of its timer, the firing appends a copy of the user
\* message and the reply to D, the conversation active at that time, and
\* not to C.
C15_ReplyGoesToActiveConversation ==
    [][ (replyTimer /\ SwitchedBeforeReply) =>
          /\ \E i \in 1..Len(conversations') :
                /\ conversations'[i].id = currentConversation.id
                /\ conversations'[i].messages =
                       currentConversation.messages
                           \o <<UserMsg(Head(pending).inputText),
                                BotMsg(Head(pending).inputText)>>
          /\ \A i \in 1..Len(conversations) :
                conversations[i].id = Head(pending).currentConversation.id =>
                    \E j \in 1..Len(conversations') :
                        conversations'[j] = conversations[i]
      ]_vars

\* C15, amended: when another conversation D is active at the firing of the
\* timer of a send made in C, the stored C becomes its messages as of the
\* send, then the user message, then the reply, and C is the active
\* conversation again; every other stored conversation is the one the list
\* held at the send, and D has no more messages than before.
C15_ReplyGoesToSendTimeNotActive ==
    [][ (replyTimer /\ SwitchedBeforeReply) =>
          LET C == Head(pending).currentConversation
              text == Head(pending).inputText
          IN  /\ currentConversation'.id = C.id
              /\ currentConversation'.messages =
                     C.messages \o <<UserMsg(text), BotMsg(text)>>
              /\ \E i \in 1..Len(conversations') :
                     conversations'[i] = currentConversation'
              /\ \A i \in 1..Len(conversations') :
                     conversations'[i].id # C.id =>
                         \E j \in 1..Len(Head(pending).conversations) :
                             conversations'[i] = Head(pending).conversations[j]
              /\ \A i \in 1..Len(conversations') :
                     conversations'[i].id = currentConversation.id =>
                         Len(conversations'[i].messages)
                             <= Len(currentConversation.messages)
      ]_vars

\* The only timer left is that of a send made in C, and a conversation D
\* that the list already held at that send is active.
C15_Witness ==
    /\ SwitchedBeforeReply
    /\ Len(pending) = 1
    /\ currentConversation.id \in Ids(Head(pending).conversations)

---------------------------------------------------------------------------
(* C16 *)

IsBot(m) == ~m.isUser

\* The number of bot messages among msgs.
Bots(msgs) == Len(SelectSeq(msgs, IsBot))

\* The last pending timer belongs to the second of two sends made one after
\* the other in a conversation C before the timer of the first fired: the
\* second send saw C end with the user message of the first, and the timer
\* of the first has fired since and stored C with its reply.
SecondOfTwoSends ==
    /\ Len(pending) = 1
    /\ Head(pending).currentConversation # Null
    /\ Head(pending).currentConversation.messages # <<>>
    /\ Last(Head(pending).currentConversation.messages).isUser
    /\ \E i \in 1..Len(conversations) :
          /\ conversations[i].id = Head(pending).currentConversation.id
          /\ conversations[i].messages =
                 Head(pending).currentConversation.messages
                     \o <<BotMsg(Last(Head(pending).currentConversation.messages).text)>>

\* C16: two sends made in a conversation C before the timer of the first
\* fires each get their reply: after both timers have fired, in the order
\* they were scheduled, the stored C holds both user messages, both
\* "You said: " replies, and two bot messages more than before the sends.
C16_EachSendGetsItsReply ==
    [][ (replyTimer /\ SecondOfTwoSends) =>
          LET C == Head(pending).currentConversation
              first == Last(C.messages).text
              second == Head(pending).inputText
          IN  \E i \in 1..Len(conversations') :
                  LET after == conversations'[i].messages
                  IN  /\ conversations'[i].id = C.id
                      /\ \E j \in 1..Len(after) : after[j] = UserMsg(first)
                      /\ \E j \in 1..Len(after) : after[j] = UserMsg(second)
                      /\ \E j \in 1..Len(after) : after[j] = BotMsg(first)
                      /\ \E j \in 1..Len(after) : after[j] = BotMsg(second)
                      /\ Bots(after) = Bots(C.messages) + 2
      ]_vars

---------------------------------------------------------------------------
(* C17 *)

\* The id of the active conversation, 0 when none is active.
ActiveId(active) == IF active = Null THEN 0 ELSE active.id

\* C17: the firing of a reply timer leaves unchanged which conversation is
\* active (none after it if none before, otherwise one with the same id),
\* the draft and the listening indicator; a step that changes which
\* conversation is active is a send, a selectConversation or a
\* startNewConversation.
C17_TimerKeepsActivePointer ==
    [][ /\ replyTimer =>
              /\ ActiveId(currentConversation') = ActiveId(currentConversation)
              /\ UNCHANGED <<inputText, isListening>>
        /\ ActiveId(currentConversation') # ActiveId(currentConversation) =>
              \/ handleSendMessage
              \/ startNewConversation
              \/ \E conversation \in Rendered : selectConversation(conversation)
      ]_vars

---------------------------------------------------------------------------
(* C18 *)

\* C18: in every reachable state with an active conversation, the list
\* holds an entry with the id of the active conversation, and that entry has
\* the title and the messages of the active snapshot.
C18_ActiveSnapshotIsStored ==
    currentConversation # Null =>
        \E i \in 1..Len(conversations) :
            /\ conversations[i].id = currentConversation.id
            /\ conversations[i].title = currentConversation.title
            /\ conversations[i].messages = currentConversation.messages

\* Sends into a conversation, a creation, a selection and timers have all
\* acted: two conversations are stored, no timer is left, and the active
\* one holds a reply after at least two user messages.
C18_Witness ==
    /\ Len(conversations) = 2
    /\ pending = <<>>
    /\ currentConversation # Null
    /\ Len(currentConversation.messages) >= 3
    /\ ~Last(currentConversation.messages).isUser

---------------------------------------------------------------------------
(* C19 *)

\* A message sequence that is not empty, starts with a user message, and in
\* which every bot message directly follows a user message and echoes it.
WellFormed(msgs) ==
    /\ msgs # <<>>
    /\ msgs[1].isUser
    /\ \A j \in 1..Len(msgs) :
          ~msgs[j].isUser =>
              /\ j > 1
              /\ msgs[j - 1].isUser
              /\ msgs[j].text = YouSaid \o msgs[j - 1].text
    /\ Bots(msgs) <= Len(msgs) - Bots(msgs)

\* C19: in every reachable state every stored conversation is not empty,
\* starts with a user message, and each of its bot messages directly
\* follows a user message m and has the text "You said: " + m.text; so it
\* never holds more bot messages than user messages.
C19_RepliesFollowTheirMessages ==
    \A i \in 1..Len(conversations) : WellFormed(conversations[i].messages)

\* A stored conversation holds two replies.
C19_Witness ==
    \E i \in 1..Len(conversations) : Bots(conversations[i].messages) = 2

=============================================================================
